---------------------------- MODULE Spec2Model ----------------------------
(***************************************************************************)
(* Analysis-request processing pipeline of the water quality API:          *)
(* processing/tasks.py (check_for_new_requests, process_request,           *)
(* calculate_download_period, download_new_images, wait_for_export_tasks,  *)
(* process_model), processing/schedulers.py, the Earth Engine / Drive      *)
(* services it drives and the tables it writes.                            *)
(*                                                                         *)
(* Dates are day numbers 1..MaxDate; None is 0.  Every action is one       *)
(* database / remote operation of a scheduler job together with the local  *)
(* computation that follows it; an exception raised by an operation is     *)
(* handled in the same action by the except clause of process_request      *)
(* (no other operation of that thread lies between the two).               *)
(***************************************************************************)
EXTENDS Integers, Sequences, FiniteSets, TLC

(* ------------------------------ bounds -------------------------------- *)
MaxDate == 3
MaxTasks == 2
MaxWaitTime == 0
MaxUpdates == 1
MaxSide == 2
MaxChunk == 2

(* the ids of the rows of the analysis_request table *)
Requests == {1}

(* the jobs the scheduler's job store can hold *)
Jobs == {1, 2}
Dates == 1..MaxDate

None == 0

(* --------------------- AnalysisRequestStatusEnum ---------------------- *)
QUEUED == 1
DOWNLOADING_IMAGES == 2
PROCESSING_IMAGES == 3
CANCELLED == 4
FAILED == 5
COMPLETED == 6

Statuses == {QUEUED, DOWNLOADING_IMAGES, PROCESSING_IMAGES, CANCELLED, FAILED, COMPLETED}

(* ------------------- machine_learning_model table --------------------- *)
(* The table is read-only to the pipeline.  Rows: id -> reservoir,         *)
(* parameter.  Models 1 and 2 are a valid pair, 1 and 3 share a parameter, *)
(* 1 and 4 are of different reservoirs.                                    *)
MachineLearningModel ==
    [m \in 1..4 |->
        CASE m = 1 -> [reservoir |-> 1, parameter |-> 1]
          [] m = 2 -> [reservoir |-> 1, parameter |-> 2]
          [] m = 3 -> [reservoir |-> 1, parameter |-> 1]
          [] m = 4 -> [reservoir |-> 2, parameter |-> 1]]

Reservoirs == {MachineLearningModel[m].reservoir : m \in DOMAIN MachineLearningModel}
Parameters == {MachineLearningModel[m].parameter : m \in DOMAIN MachineLearningModel}

(* the properties["model_ids"] values a request is submitted with *)
ModelIdSets == {{1}, {1, 2}, {1, 3}, {1, 4}, {}}

CloudValues == {10}

VARIABLES
    requests,            \* analysis_request table: id -> row
    analysis_groups,     \* analysis_group table
    unprocessed_images,  \* unprocessed_satellite_image table
    analyses,            \* analysis table
    analysis_ml_models,  \* analysis_machine_learning_model table
    ee_tasks,            \* Earth Engine export tasks: task id -> task
    drive,               \* tiff files in the Drive staging folders
    drive_folders,       \* staging folders that exist in Drive
    pc,                  \* position of each scheduler job
    new_requests,        \* check_for_new_requests: requests left to hand over
    request_id,          \* process_request: its argument
    local,               \* process_request: its local variables
    raised,              \* exception process_request has raised
    scheduler_jobs,      \* jobs registered in the scheduler's job store
    updates,             \* number of external updates made through the API
    raster,              \* process_image: its raster, position and output
    tiles                \* _process_single_date: its threads, lock and list

vars == <<requests, analysis_groups, unprocessed_images, analyses,
          analysis_ml_models, ee_tasks, drive, drive_folders, pc,
          new_requests, request_id, local, raised, scheduler_jobs,
          updates, raster, tiles>>

db == <<analysis_groups, unprocessed_images, analyses, analysis_ml_models>>
remote == <<ee_tasks, drive, drive_folders>>

(* ------------------------- pure functions ----------------------------- *)

(* MachineLearningModel.objects.filter(id__in=model_ids) *)
FilterModels(model_ids) == {m \in DOMAIN MachineLearningModel : m \in model_ids}

distinct_reservoirs(models) == {MachineLearningModel[m].reservoir : m \in models}

duplicate_parameters(models) ==
    {p \in Parameters :
        Cardinality({m \in models : MachineLearningModel[m].parameter = p}) > 1}

(* the validation without its second check *)
ValidationError_NoParameterCheck(models) ==
    IF Cardinality(distinct_reservoirs(models)) > 1
    THEN "ValueError: All models must be from the same reservoir"
    ELSE IF models = {}
    THEN "AttributeError: 'NoneType' object has no attribute 'reservoir'"
    ELSE "none"

(* The exception the validation of process_request raises, or "none". *)
ValidationError(models) ==
    IF Cardinality(distinct_reservoirs(models)) > 1
    THEN "ValueError: All models must be from the same reservoir"
    ELSE IF duplicate_parameters(models) # {}
    THEN "ValueError: Multiple models found for the same parameter(s)"
    ELSE IF models = {}
    THEN "AttributeError: 'NoneType' object has no attribute 'reservoir'"
    ELSE "none"

SetMax(S) == CHOOSE x \in S : \A y \in S : y <= x
SetMin(S) == CHOOSE x \in S : \A y \in S : x <= y

(* UnprocessedSatelliteImage.objects.filter(reservoir=..., image_date__range=(s, e)) *)
ImagesInRange(images, reservoir, s, e) ==
    {i \in images : i.reservoir = reservoir /\ s <= i.image_date /\ i.image_date <= e}

(* an aggregate that finds no cached image *)
MaxImageDate_NoCache(images) == None

(* .aggregate(Max('image_date'))['image_date__max'] *)
MaxImageDate(images) ==
    IF images = {} THEN None ELSE SetMax({i.image_date : i \in images})

(* calculate_download_period without the step that widens an interval of *)
(* one day                                                               *)
calculate_download_period_NoWiden(last_marked_date, request_start, request_end) ==
    IF last_marked_date # None /\ last_marked_date < request_end
    THEN <<last_marked_date + 1, request_end>>
    ELSE IF last_marked_date = None
    THEN <<request_start, request_end>>
    ELSE <<None, None>>

(* calculate_download_period: <<new_start_date, new_end_date>>, or <<None, None>> *)
calculate_download_period(last_marked_date, request_start, request_end) ==
    LET period ==
            IF last_marked_date # None /\ last_marked_date < request_end
            THEN <<last_marked_date + 1, request_end>>
            ELSE IF last_marked_date = None
            THEN <<request_start, request_end>>
            ELSE <<None, None>>
    IN  IF period[1] # None /\ period[2] # None /\ period[1] = period[2]
        THEN <<period[1], period[2] + 1>>
        ELSE period

(* The sequence of the elements of a set of integers, ascending. *)
RECURSIVE SortedSeq(_)
SortedSeq(S) ==
    IF S = {} THEN <<>> ELSE <<SetMin(S)>> \o SortedSeq(S \ {SetMin(S)})


(* ---------------------------- rows and locals -------------------------- *)

(* models.first().reservoir of a request whose model set is valid *)
ReservoirOf(r) ==
    MachineLearningModel[SetMin(FilterModels(requests[r].properties.model_ids))].reservoir

(* a table without the constraint *)
UniqueViolation_NoConstraint(images, reservoir, image_date) == FALSE

(* unique_together = ['reservoir', 'image_date'] *)
UniqueViolation(images, reservoir, image_date) ==
    \E i \in images : i.reservoir = reservoir /\ i.image_date = image_date

(* The local variables of process_request before its first statement.     *)
(* start_status is the status of the row that objects.get returned, saved *)
(* lists the status values this call has saved so far.                    *)
NoLocal ==
    [start_status |-> None, analysis_group |-> None, reservoir |-> None,
     new_start_date |-> None, new_end_date |-> None,
     tasks_info |-> <<>>, elapsed |-> 0, downloaded_files |-> <<>>,
     todo |-> <<>>, saved |-> <<>>]

(* a save that also writes the error into the properties of a failed row *)
Save_RecordsError(r, loc, status) ==
    requests' = [requests EXCEPT
                    ![r].analysis_request_status = status,
                    ![r].analysis_group = loc.analysis_group,
                    ![r].properties =
                        IF status = FAILED
                        THEN [model_ids |-> @.model_ids, error |-> "Exception"]
                        ELSE @]

(* request.analysis_request_status_id = status; request.save(): save      *)
(* writes every field of the local object, the analysis group included    *)
Save(r, loc, status) ==
    requests' = [requests EXCEPT
                    ![r].analysis_request_status = status,
                    ![r].analysis_group = loc.analysis_group]

(* an except clause that raises again without saving FAILED *)
Fail_NoSave(j, r, loc, e) ==
    /\ UNCHANGED requests
    /\ local' = [local EXCEPT ![j] =
                    [NoLocal EXCEPT !.start_status = loc.start_status,
                                    !.saved = loc.saved]]
    /\ pc' = [pc EXCEPT ![j] = "raised"]
    /\ raised' = [raised EXCEPT ![j] = e]

(* except Exception as e: status = FAILED; save(); raise, in the call     *)
(* process_request(r) of job j whose local variables are loc              *)
Fail(j, r, loc, e) ==
    /\ Save(r, loc, FAILED)
    /\ local' = [local EXCEPT ![j] =
                    [NoLocal EXCEPT !.start_status = loc.start_status,
                                    !.saved = Append(loc.saved, FAILED)]]
    /\ pc' = [pc EXCEPT ![j] = "raised"]
    /\ raised' = [raised EXCEPT ![j] = e]

(* no image is being processed *)
NoRaster == [state |-> "none"]

(* no date is being processed tile by tile *)
NoTiles == [main |-> "none"]

(* ------------------------------- Init --------------------------------- *)
(* The requests have been created through the API (dates and properties  *)
(* as submitted, status default QUEUED, no analysis group), the scheduler *)
(* has been started once and nothing has been processed yet.              *)
NewRequests ==
    {q \in [start_date : Dates, end_date : Dates,
            properties : {[model_ids |-> ms] : ms \in ModelIdSets},
            analysis_request_status : {QUEUED}, analysis_group : {None}] :
        q.start_date <= q.end_date}

Fresh ==
    /\ analysis_groups = {}
    /\ unprocessed_images = {}
    /\ analyses = {}
    /\ analysis_ml_models = {}
    /\ ee_tasks = {}
    /\ drive = {}
    /\ drive_folders = {}
    /\ pc = [j \in Jobs |-> "idle"]
    /\ new_requests = [j \in Jobs |-> {}]
    /\ request_id = [j \in Jobs |-> None]
    /\ local = [j \in Jobs |-> NoLocal]
    /\ raised = [j \in Jobs |-> "none"]
    /\ scheduler_jobs = {1}
    /\ updates = 0

Init ==
    /\ requests \in [Requests -> NewRequests]
    /\ Fresh
    /\ raster = NoRaster
    /\ tiles = NoTiles

(* The request names one model. *)
InitRestart ==
    /\ requests \in [Requests -> {q \in NewRequests :
                        q.properties.model_ids = {1}}]
    /\ Fresh
    /\ raster = NoRaster
    /\ tiles = NoTiles

(* ------------------------------ scheduler ----------------------------- *)

(* schedulers.start(), run again by the start_scheduler command: add_job  *)
(* gives no id and no replace_existing, so the persistent job store gets  *)
(* one more job that runs check_for_new_requests.                         *)
StartScheduler ==
    /\ scheduler_jobs # Jobs
    /\ scheduler_jobs' = scheduler_jobs \cup {SetMin(Jobs \ scheduler_jobs)}
    /\ UNCHANGED <<requests, db, remote, pc, new_requests, request_id, local,
                   raised, updates,
                   raster, tiles>>

(* ------------------------ check_for_new_requests ---------------------- *)

(* A scheduler job fires (a job has one running instance at most): the    *)
(* QUEUED requests are read once, when the for loop starts iterating the  *)
(* queryset.                                                              *)
Tick(j) ==
    /\ j \in scheduler_jobs
    /\ pc[j] = "idle"
    /\ LET queued == {r \in DOMAIN requests :
                        requests[r].analysis_request_status = QUEUED}
       IN  /\ queued # {}
           /\ new_requests' = [new_requests EXCEPT ![j] = queued]
    /\ pc' = [pc EXCEPT ![j] = "loop"]
    /\ UNCHANGED <<requests, db, remote, request_id, local, raised,
                   scheduler_jobs, updates,
                   raster, tiles>>

(* The for loop has no request left: the run of the job ends. *)
EndTick(j) ==
    /\ pc[j] = "loop"
    /\ new_requests[j] = {}
    /\ pc' = [pc EXCEPT ![j] = "idle"]
    /\ request_id' = [request_id EXCEPT ![j] = None]
    /\ local' = [local EXCEPT ![j] = NoLocal]
    /\ UNCHANGED <<requests, db, remote, new_requests, raised,
                   scheduler_jobs, updates,
                   raster, tiles>>

(* The exception raised by process_request leaves the for loop and        *)
(* check_for_new_requests: the run of the job ends, whatever requests     *)
(* were left.                                                             *)
EndRaised(j) ==
    /\ pc[j] = "raised"
    /\ pc' = [pc EXCEPT ![j] = "idle"]
    /\ new_requests' = [new_requests EXCEPT ![j] = {}]
    /\ request_id' = [request_id EXCEPT ![j] = None]
    /\ local' = [local EXCEPT ![j] = NoLocal]
    /\ raised' = [raised EXCEPT ![j] = "none"]
    /\ UNCHANGED <<requests, db, remote, scheduler_jobs, updates,
                   raster, tiles>>

(* --------------------------- process_request -------------------------- *)

(* for request in new_requests: process_request(request.id), from         *)
(* AnalysisRequest.objects.get through the validation of the models to    *)
(* AnalysisGroup.objects.create and the save of DOWNLOADING_IMAGES.       *)
StartRequest(j) ==
    /\ pc[j] = "loop"
    /\ \E r \in new_requests[j] :
        LET models == FilterModels(requests[r].properties.model_ids)
            err == ValidationError(models)
            group == [id |-> Cardinality(analysis_groups) + 1,
                      reservoir |-> ReservoirOf(r),
                      start_date |-> requests[r].start_date,
                      end_date |-> requests[r].end_date,
                      request |-> r]
            got == [NoLocal EXCEPT
                        !.start_status = requests[r].analysis_request_status,
                        !.analysis_group = requests[r].analysis_group]
        IN  /\ new_requests' = [new_requests EXCEPT ![j] = @ \ {r}]
            /\ request_id' = [request_id EXCEPT ![j] = r]
            /\ IF err # "none"
               THEN /\ Fail(j, r, got, err)
                    /\ UNCHANGED analysis_groups
               ELSE /\ analysis_groups' = analysis_groups \cup {group}
                    /\ requests' = [requests EXCEPT
                            ![r].analysis_request_status = DOWNLOADING_IMAGES,
                            ![r].analysis_group = group.id]
                    /\ local' = [local EXCEPT ![j] =
                            [got EXCEPT !.analysis_group = group.id,
                                        !.reservoir = group.reservoir,
                                        !.saved = <<DOWNLOADING_IMAGES>>]]
                    /\ pc' = [pc EXCEPT ![j] = "acquire"]
                    /\ UNCHANGED raised
    /\ UNCHANGED <<unprocessed_images, analyses, analysis_ml_models, remote,
                   scheduler_jobs, updates,
                   raster, tiles>>

(* ------------------------- download_new_images ------------------------ *)

(* filename = f"{folder_name}_{date}": a name is the sequence of its      *)
(* parts, and the part after the folder is a YYYY-MM-DD date              *)
Filename(folder_name, date) == <<folder_name, date>>

(* a name with no YYYY-MM-DD substring *)
NoDateName == <<"image">>

(* extract_date_from_filename without the ValueError: a file with no date *)
(* in its name gets no date                                               *)
extract_date_from_filename_Lenient(filename) ==
    IF Len(filename) >= 2
    THEN [error |-> "none", date |-> filename[2]]
    ELSE [error |-> "none", date |-> None]

(* extract_date_from_filename: the date re.search finds in the name, or   *)
(* the ValueError raised when it finds none                               *)
extract_date_from_filename(filename) ==
    IF Len(filename) >= 2
    THEN [error |-> "none", date |-> filename[2]]
    ELSE [error |-> "ValueError: Could not extract date from filename",
          date |-> None]

(* The batches create_export_tasks can return for [start_date, end_date): *)
(* one task per mosaic the provider finds (filterDate excludes the end    *)
(* date; two passes of one day give two tasks of that date), in date      *)
(* order, at most n of them.                                              *)
Batches(start_date, end_date, n) ==
    UNION {{b \in [1..k -> [date : start_date..(end_date - 1),
                            cloud_percentage : CloudValues]] :
                \A i \in 1..(k - 1) : b[i].date <= b[i + 1].date} :
           k \in 0..n}

(* The query of the cached images, calculate_download_period and, when it *)
(* returns a period, download_new_images up to create_export_tasks: the   *)
(* tasks are started in Earth Engine and described in tasks_info.         *)
Acquire(j) ==
    /\ pc[j] = "acquire"
    /\ LET r == request_id[j]
           marked_images == ImagesInRange(unprocessed_images,
                                local[j].reservoir,
                                requests[r].start_date, requests[r].end_date)
           period == calculate_download_period(MaxImageDate(marked_images),
                                requests[r].start_date, requests[r].end_date)
       IN  IF period[1] # None /\ period[2] # None
           THEN \/ \E b \in Batches(period[1], period[2],
                                    MaxTasks - Cardinality(ee_tasks)) :
                    LET first == Cardinality(ee_tasks)
                        tasks == [i \in 1..Len(b) |->
                                    [task_id |-> first + i,
                                     date |-> b[i].date,
                                     folder |-> local[j].reservoir,
                                     filename |-> Filename(local[j].reservoir,
                                                           b[i].date),
                                     cloud_percentage |-> b[i].cloud_percentage]]
                    IN  /\ ee_tasks' = ee_tasks \cup
                                {[task_id |-> tasks[i].task_id,
                                  date |-> tasks[i].date,
                                  folder |-> tasks[i].folder,
                                  description |-> tasks[i].filename,
                                  state |-> "RUNNING"] : i \in 1..Len(b)}
                        /\ local' = [local EXCEPT ![j] =
                                [@ EXCEPT !.new_start_date = period[1],
                                          !.new_end_date = period[2],
                                          !.tasks_info = tasks]]
                        /\ pc' = [pc EXCEPT ![j] = "wait"]
                        /\ UNCHANGED <<requests, raised>>
                \/ /\ Fail(j, r, local[j], "EEException")
                   /\ UNCHANGED ee_tasks
           ELSE /\ pc' = [pc EXCEPT ![j] = "mark"]
                /\ UNCHANGED <<requests, local, raised, ee_tasks>>
    /\ UNCHANGED <<db, drive, drive_folders, new_requests, request_id,
                   scheduler_jobs, updates,
                   raster, tiles>>


(* Earth Engine finishes an export task; a completed task leaves its      *)
(* GeoTIFF in the Drive folder it was started with.                       *)
TaskProgress(t, state) ==
    /\ t \in ee_tasks
    /\ t.state = "RUNNING"
    /\ state \in {"COMPLETED", "FAILED", "CANCELLED"}
    /\ ee_tasks' = (ee_tasks \ {t}) \cup {[t EXCEPT !.state = state]}
    /\ IF state = "COMPLETED"
       THEN /\ drive' = drive \cup {[folder |-> t.folder,
                                     name |-> t.description,
                                     task_id |-> t.task_id]}
            /\ drive_folders' = drive_folders \cup {t.folder}
       ELSE UNCHANGED <<drive, drive_folders>>
    /\ UNCHANGED <<requests, db, pc, new_requests, request_id, local,
                   raised, scheduler_jobs, updates,
                   raster, tiles>>

(* a poll that reports every task COMPLETED *)
TaskState_AlwaysCompleted(task_id) == "COMPLETED"

(* current_task.state of the task of Task.list() with this id *)
TaskState(task_id) == (CHOOSE t \in ee_tasks : t.task_id = task_id).state

(* One pass of the for loop of wait_for_export_tasks over tasks_info,     *)
(* from task i on: "raise" with the index of the task that ends the wait, *)
(* "sleep" when the loop breaks at a task that is not COMPLETED, "done"   *)
(* when every task is COMPLETED.                                          *)
RECURSIVE CheckTasks(_, _)
CheckTasks(tasks_info, i) ==
    IF i > Len(tasks_info)
    THEN [result |-> "done", index |-> 0]
    ELSE LET state == TaskState(tasks_info[i].task_id)
         IN  IF state \in {"FAILED", "CANCELLED"}
             THEN [result |-> "raise", index |-> i]
             ELSE IF state # "COMPLETED"
             THEN [result |-> "sleep", index |-> i]
             ELSE CheckTasks(tasks_info, i + 1)

(* the while loop without its check of max_wait_time *)
WaitRound_NoTimeout(j) ==
    /\ pc[j] = "wait"
    /\ LET check == CheckTasks(local[j].tasks_info, 1)
       IN  IF check.result = "raise"
           THEN Fail(j, request_id[j], local[j],
                     "Exception: Task FAILED or CANCELLED")
           ELSE /\ IF check.result = "done"
                   THEN /\ pc' = [pc EXCEPT ![j] = "download"]
                        /\ UNCHANGED local
                   ELSE /\ local' = [local EXCEPT ![j] =
                                [@ EXCEPT !.elapsed =
                                    IF @ > MaxWaitTime THEN @ ELSE @ + 1]]
                        /\ UNCHANGED pc
                /\ UNCHANGED <<requests, raised>>
    /\ UNCHANGED <<db, remote, new_requests, request_id, scheduler_jobs,
                   updates,
                   raster, tiles>>

(* One iteration of the while loop of wait_for_export_tasks; time is      *)
(* counted in check intervals and advances by the sleep.                  *)
WaitRound(j) ==
    /\ pc[j] = "wait"
    /\ LET check == CheckTasks(local[j].tasks_info, 1)
       IN  IF local[j].elapsed > MaxWaitTime
           THEN Fail(j, request_id[j], local[j], "TimeoutError")
           ELSE IF check.result = "raise"
           THEN Fail(j, request_id[j], local[j],
                     "Exception: Task FAILED or CANCELLED")
           ELSE /\ IF check.result = "done"
                   THEN /\ pc' = [pc EXCEPT ![j] = "download"]
                        /\ UNCHANGED local
                   ELSE /\ local' = [local EXCEPT ![j] =
                                        [@ EXCEPT !.elapsed = @ + 1]]
                        /\ UNCHANGED pc
                /\ UNCHANGED <<requests, raised>>
    /\ UNCHANGED <<db, remote, new_requests, request_id, scheduler_jobs,
                   updates,
                   raster, tiles>>

(* a lookup that matches no task *)
CloudOf_NoMatch(tasks_info, f) == None

(* the cloud percentage download_folder_contents gives a file: that of    *)
(* the first task of tasks_info with the file's name, else None           *)
CloudOf(tasks_info, f) ==
    LET matching == {i \in 1..Len(tasks_info) :
                        tasks_info[i].filename = f.name}
    IN  IF matching = {} THEN None
        ELSE tasks_info[SetMin(matching)].cloud_percentage

(* drive_service.download_folder_contents(folder_name, tasks_info): every *)
(* tiff of the folder is downloaded and deleted from Drive.               *)
Download(j) ==
    /\ pc[j] = "download"
    /\ IF local[j].reservoir \notin drive_folders
       THEN /\ Fail(j, request_id[j], local[j], "ValueError: Folder not found")
            /\ UNCHANGED drive
       ELSE LET files == {f \in drive : f.folder = local[j].reservoir}
                order == SortedSeq({f.task_id : f \in files})
                file(i) == CHOOSE f \in files : f.task_id = order[i]
                downloaded_files ==
                    [i \in 1..Len(order) |->
                        [file_content |-> file(i).task_id,
                         file_name |-> file(i).name,
                         cloud_percentage |->
                            CloudOf(local[j].tasks_info, file(i))]]
            IN  /\ drive' = drive \ files
                /\ local' = [local EXCEPT ![j] =
                        [@ EXCEPT !.downloaded_files = downloaded_files]]
                /\ pc' = [pc EXCEPT ![j] =
                        IF downloaded_files = <<>> THEN "mark" ELSE "persist"]
                /\ UNCHANGED <<requests, raised>>
    /\ UNCHANGED <<db, ee_tasks, drive_folders, new_requests, request_id,
                   scheduler_jobs, updates,
                   raster, tiles>>

(* a loop over downloaded_files that stops after its first file *)
Persist_OnlyFirst(j) ==
    /\ pc[j] = "persist"
    /\ LET f == Head(local[j].downloaded_files)
           image_date == extract_date_from_filename(f.file_name)
           row == [reservoir |-> local[j].reservoir,
                   image_date |-> image_date.date,
                   image_file |-> f.file_content,
                   cloud_percentage |-> f.cloud_percentage]
       IN  IF image_date.error # "none"
           THEN /\ Fail(j, request_id[j], local[j], image_date.error)
                /\ UNCHANGED unprocessed_images
           ELSE IF UniqueViolation(unprocessed_images, row.reservoir,
                                   row.image_date)
           THEN /\ Fail(j, request_id[j], local[j], "IntegrityError")
                /\ UNCHANGED unprocessed_images
           ELSE /\ unprocessed_images' = unprocessed_images \cup {row}
                /\ local' = [local EXCEPT ![j] =
                        [@ EXCEPT !.downloaded_files = <<>>]]
                /\ pc' = [pc EXCEPT ![j] = "mark"]
                /\ UNCHANGED <<requests, raised>>
    /\ UNCHANGED <<analysis_groups, analyses, analysis_ml_models, remote,
                   new_requests, request_id, scheduler_jobs, updates,
                   raster, tiles>>

(* One iteration of the loop over downloaded_files:                       *)
(* extract_date_from_filename and UnprocessedSatelliteImage.objects.create *)
Persist(j) ==
    /\ pc[j] = "persist"
    /\ LET f == Head(local[j].downloaded_files)
           image_date == extract_date_from_filename(f.file_name)
           row == [reservoir |-> local[j].reservoir,
                   image_date |-> image_date.date,
                   image_file |-> f.file_content,
                   cloud_percentage |-> f.cloud_percentage]
       IN  IF image_date.error # "none"
           THEN /\ Fail(j, request_id[j], local[j], image_date.error)
                /\ UNCHANGED unprocessed_images
           ELSE IF UniqueViolation(unprocessed_images, row.reservoir,
                                   row.image_date)
           THEN /\ Fail(j, request_id[j], local[j], "IntegrityError")
                /\ UNCHANGED unprocessed_images
           ELSE /\ unprocessed_images' = unprocessed_images \cup {row}
                /\ local' = [local EXCEPT ![j] =
                        [@ EXCEPT !.downloaded_files = Tail(@)]]
                /\ pc' = [pc EXCEPT ![j] =
                        IF Tail(local[j].downloaded_files) = <<>>
                        THEN "mark" ELSE "persist"]
                /\ UNCHANGED <<requests, raised>>
    /\ UNCHANGED <<analysis_groups, analyses, analysis_ml_models, remote,
                   new_requests, request_id, scheduler_jobs, updates,
                   raster, tiles>>

(* ------------------------------ inference ----------------------------- *)

(* process_request without the save of PROCESSING_IMAGES *)
MarkProcessing_NoSave(j) ==
    /\ pc[j] = "mark"
    /\ pc' = [pc EXCEPT ![j] = "load"]
    /\ UNCHANGED <<requests, local, db, remote, new_requests, request_id,
                   raised, scheduler_jobs, updates,
                   raster, tiles>>

(* request.analysis_request_status_id = PROCESSING_IMAGES; request.save() *)
MarkProcessing(j) ==
    /\ pc[j] = "mark"
    /\ Save(request_id[j], local[j], PROCESSING_IMAGES)
    /\ local' = [local EXCEPT ![j] =
                    [@ EXCEPT !.saved = Append(@, PROCESSING_IMAGES)]]
    /\ pc' = [pc EXCEPT ![j] = "load"]
    /\ UNCHANGED <<db, remote, new_requests, request_id, raised,
                   scheduler_jobs, updates,
                   raster, tiles>>

(* a loop over the models that stops after its first model *)
Pairs_FirstModel(models, images) ==
    LET ms == SortedSeq(models)
        ds == SortedSeq({i.image_date : i \in images})
        n == Len(ds)
    IN  [k \in 1..n |->
            [model |-> ms[1],
             image |-> CHOOSE i \in images : i.image_date = ds[k]]]

(* the (model, image) pairs in the order of the loops of process_request  *)
(* and process_model: models by id, images by date                        *)
Pairs(models, images) ==
    LET ms == SortedSeq(models)
        ds == SortedSeq({i.image_date : i \in images})
        n == Len(ds)
    IN  [k \in 1..(Len(ms) * n) |->
            [model |-> ms[((k - 1) \div n) + 1],
             image |-> CHOOSE i \in images :
                            i.image_date = ds[((k - 1) % n) + 1]]]

(* The all_images queryset is evaluated when the first process_model      *)
(* starts iterating it, and its result is reused for the other models.    *)
LoadImages(j) ==
    /\ pc[j] = "load"
    /\ LET r == request_id[j]
           all_images == ImagesInRange(unprocessed_images, local[j].reservoir,
                            requests[r].start_date, requests[r].end_date)
       IN  local' = [local EXCEPT ![j] =
                [@ EXCEPT !.todo =
                    Pairs(FilterModels(requests[r].properties.model_ids), all_images)]]
    /\ pc' = [pc EXCEPT ![j] = "process"]
    /\ UNCHANGED <<requests, db, remote, new_requests, request_id, raised,
                   scheduler_jobs, updates,
                   raster, tiles>>

(* the Analysis row process_model creates for the k-th pair *)
AnalysisRow(group, todo, k) ==
    [analysis_group |-> group,
     identifier_code |-> k,
     analysis_date |-> todo[k].image.image_date,
     cloud_percentage |-> todo[k].image.cloud_percentage]

(* the AnalysisMachineLearningModel row process_model creates for it *)
ResultRow(group, todo, k) ==
    [analysis |-> AnalysisRow(group, todo, k),
     machine_learning_model |-> todo[k].model]

(* a loop over the images that logs the error of an image and goes on    *)
(* with the next one: image n, if any, is skipped                         *)
ProcessModels_SkipsBadImage(j) ==
    /\ pc[j] = "process"
    /\ \E n \in 0..Len(local[j].todo) :
        /\ analyses' = analyses \cup
                {AnalysisRow(local[j].analysis_group, local[j].todo, k) :
                    k \in (1..Len(local[j].todo)) \ {n}}
        /\ analysis_ml_models' = analysis_ml_models \cup
                {ResultRow(local[j].analysis_group, local[j].todo, k) :
                    k \in (1..Len(local[j].todo)) \ {n}}
        /\ Save(request_id[j], local[j], COMPLETED)
        /\ local' = [local EXCEPT ![j] =
                [NoLocal EXCEPT
                    !.start_status = local[j].start_status,
                    !.saved = Append(local[j].saved, COMPLETED)]]
        /\ pc' = [pc EXCEPT ![j] = "loop"]
        /\ UNCHANGED raised
    /\ UNCHANGED <<analysis_groups, unprocessed_images, remote, new_requests,
                   request_id, scheduler_jobs, updates,
                   raster, tiles>>

(* The loops of process_request and process_model over the models and the *)
(* images.  The first n pairs are processed and their rows created.  If a *)
(* pair is left, processing it raised: in process_image, before its       *)
(* Analysis row is created, or in the map generation, after it            *)
(* (created); the exception is printed and raised again.  If none is      *)
(* left, either WaterQualityPredictor raised for the first model          *)
(* (~loaded, no row is created) or COMPLETED is saved.                    *)
ProcessModels(j) ==
    /\ pc[j] = "process"
    /\ \E n \in 0..Len(local[j].todo), created, loaded \in BOOLEAN :
        /\ created => n < Len(local[j].todo)
        /\ ~loaded => (n = 0 /\ ~created)
        /\ analyses' = analyses \cup
                {AnalysisRow(local[j].analysis_group, local[j].todo, k) :
                    k \in 1..(IF created THEN n + 1 ELSE n)}
        /\ analysis_ml_models' = analysis_ml_models \cup
                {ResultRow(local[j].analysis_group, local[j].todo, k) :
                    k \in 1..n}
        /\ IF ~loaded
           THEN Fail(j, request_id[j], local[j],
                     "Exception: WaterQualityPredictor")
           ELSE IF n < Len(local[j].todo)
           THEN Fail(j, request_id[j], local[j], "Exception: image processing")
           ELSE /\ Save(request_id[j], local[j], COMPLETED)
                /\ local' = [local EXCEPT ![j] =
                        [NoLocal EXCEPT
                            !.start_status = local[j].start_status,
                            !.saved = Append(local[j].saved, COMPLETED)]]
                /\ pc' = [pc EXCEPT ![j] = "loop"]
                /\ UNCHANGED raised
    /\ UNCHANGED <<analysis_groups, unprocessed_images, remote, new_requests,
                   request_id, scheduler_jobs, updates,
                   raster, tiles>>

(* ---------------------- WaterQualityPredictor.process_image ----------- *)

(* the nodata value of the output raster *)
NoData == -9999

(* the pixels <<row, column>> of a raster *)
Pixels(height, width) == (0..(height - 1)) \X (0..(width - 1))

(* min(a, b) *)
Min(a, b) == IF a < b THEN a ELSE b

(* a window of the right size whose offsets are left at the origin *)
Window_FromOrigin(y, x, y_end, x_end) ==
    {p \in (0..(y_end - y - 1)) \X (0..(x_end - x - 1)) : TRUE}

(* rasterio.windows.Window(x, y, x_end - x, y_end - y), as the pixels of  *)
(* the rows y..y_end-1 and the columns x..x_end-1                         *)
Window(y, x, y_end, x_end) ==
    {p \in (y..(y_end - 1)) \X (x..(x_end - 1)) : TRUE}

(* the pixels output_data[y:y_end, x:x_end] names in an array of the      *)
(* given height and width                                                 *)
Slice(height, width, y, x, y_end, x_end) ==
    {p \in Pixels(height, width) :
        /\ y <= p[1] /\ p[1] < y_end
        /\ x <= p[2] /\ p[2] < x_end}

(* output_data[y:y_end, x:x_end] = chunk_result: the value at row r and   *)
(* column c of chunk_result, which is that of the pixel at row r and      *)
(* column c of the window that was read, goes to <<y + r, x + c>>         *)
WriteChunk(output_data, slice, y, x, window, chunk_result) ==
    LET row_off == SetMin({p[1] : p \in window})
        col_off == SetMin({p[2] : p \in window})
    IN  [p \in DOMAIN output_data |->
            IF p \in slice
            THEN chunk_result[<<row_off + (p[1] - y), col_off + (p[2] - x)>>]
            ELSE output_data[p]]

(* what the model predicts for the features of a pixel: a value that is   *)
(* not the nodata value and tells the pixels of a raster apart            *)
Predict(p, width) == p[1] * width + p[2]

(* arr.ravel() on the window: its pixels in row-major order *)
Ravel(window) ==
    LET y == SetMin({p[1] : p \in window})
        x == SetMin({p[2] : p \in window})
        cols == Cardinality({p[2] : p \in window})
    IN  [i \in 1..Cardinality(window) |->
            <<y + ((i - 1) \div cols), x + ((i - 1) % cols)>>]

(* features_df[water_mask.ravel()]: the rows of the pixels whose MNDWI is *)
(* above 0.3, in the order of the ravel                                   *)
valid_features(window, water) ==
    LET InMask(p) == p \in water
    IN  SelectSeq(Ravel(window), InMask)

(* a process_chunk that predicts for every pixel of the window *)
process_chunk_NoMask(window, water, width) ==
    [p \in window |-> Predict(p, width)]

(* process_chunk on the pixels of a window: the rows of the water mask    *)
(* are scaled and predicted, chunk_result is filled with -9999 and        *)
(* chunk_result[water_mask] = predictions puts the i-th prediction at the *)
(* i-th pixel of the mask in row-major order; with no row nothing is      *)
(* predicted                                                              *)
process_chunk(window, water, width) ==
    LET flat == Ravel(window)
        valid == valid_features(window, water)
        predictions == [i \in 1..Len(valid) |-> Predict(valid[i], width)]
        Position(p) == CHOOSE i \in 1..Len(flat) : flat[i] = p
        Rank(p) == Cardinality({k \in 1..Position(p) : flat[k] \in water})
    IN  IF Len(valid) > 0
        THEN [p \in window |->
                IF p \in water THEN predictions[Rank(p)] ELSE NoData]
        ELSE [p \in window |-> NoData]

(* The rasters process_image is called with: a height and a width, the    *)
(* pixels whose MNDWI is above 0.3, and the chunk size of the loop;       *)
(* windows lists the y, x, y_end and x_end of the iterations made.        *)
NewRasters ==
    UNION {[state : {"windows"}, height : {h}, width : {w},
            chunk_size : 1..MaxChunk, water : SUBSET Pixels(h, w),
            y : {0}, x : {0},
            output_data : {[p \in Pixels(h, w) |-> NoData]},
            errors : {{}}, windows : {<<>>}] :
                h \in 1..MaxSide, w \in 1..MaxSide}

(* the loop of process_image without its try *)
ProcessWindow_NoCatch ==
    /\ raster.state = "windows"
    /\ \E outcome \in {"ok", "process_chunk", "read"} :
        LET chunk_size == raster.chunk_size
            y == raster.y
            x == raster.x
            y_end == Min(y + chunk_size, raster.height)
            x_end == Min(x + chunk_size, raster.width)
            window == Window(y, x, y_end, x_end)
            chunk_result == process_chunk(window, raster.water, raster.width)
            slice == Slice(raster.height, raster.width, y, x, y_end, x_end)
            loop == [y |-> y, x |-> x, y_end |-> y_end, x_end |-> x_end]
            row_done == x + chunk_size >= raster.width
            all_done == row_done /\ y + chunk_size >= raster.height
        IN  IF outcome = "read"
            THEN raster' = [raster EXCEPT !.state = "raised",
                                          !.windows = Append(@, loop)]
            ELSE IF outcome = "process_chunk"
            THEN raster' = [raster EXCEPT !.state = "raised",
                                          !.errors = @ \cup {<<y, x>>},
                                          !.windows = Append(@, loop)]
            ELSE raster' = [raster EXCEPT
                    !.output_data =
                        WriteChunk(@, slice, y, x, window, chunk_result),
                    !.windows = Append(@, loop),
                    !.x = IF row_done THEN 0 ELSE x + chunk_size,
                    !.y = IF row_done THEN y + chunk_size ELSE y,
                    !.state = IF all_done THEN "done" ELSE "windows"]
    /\ UNCHANGED <<requests, db, remote, pc, new_requests, request_id, local,
                   raised, scheduler_jobs, updates, tiles>>

(* One iteration of the loops of process_image over y and x: the window   *)
(* is read (src.read is outside the try: its exception leaves             *)
(* process_image), process_chunk is called and its result is written into *)
(* output_data, or its exception is caught and the loop goes on; after    *)
(* the last window the output raster is written from output_data.         *)
ProcessWindow ==
    /\ raster.state = "windows"
    /\ \E outcome \in {"ok", "process_chunk", "read"} :
        LET chunk_size == raster.chunk_size
            y == raster.y
            x == raster.x
            y_end == Min(y + chunk_size, raster.height)
            x_end == Min(x + chunk_size, raster.width)
            window == Window(y, x, y_end, x_end)
            chunk_result == process_chunk(window, raster.water, raster.width)
            slice == Slice(raster.height, raster.width, y, x, y_end, x_end)
            loop == [y |-> y, x |-> x, y_end |-> y_end, x_end |-> x_end]
            row_done == x + chunk_size >= raster.width
            all_done == row_done /\ y + chunk_size >= raster.height
        IN  IF outcome = "read"
            THEN raster' = [raster EXCEPT !.state = "raised",
                                          !.windows = Append(@, loop)]
            ELSE raster' = [raster EXCEPT
                    !.output_data =
                        IF outcome = "ok"
                        THEN WriteChunk(@, slice, y, x, window, chunk_result)
                        ELSE @,
                    !.windows = Append(@, loop),
                    !.errors = IF outcome = "process_chunk"
                               THEN @ \cup {<<y, x>>} ELSE @,
                    !.x = IF row_done THEN 0 ELSE x + chunk_size,
                    !.y = IF row_done THEN y + chunk_size ELSE y,
                    !.state = IF all_done THEN "done" ELSE "windows"]
    /\ UNCHANGED <<requests, db, remote, pc, new_requests, request_id, local,
                   raised, scheduler_jobs, updates, tiles>>

(* ------------------------------ Drive users --------------------------- *)

(* Somebody with access to the Drive account puts a tiff whose name holds *)
(* no date into a staging folder (one such file at a time).               *)
UploadFile(folder) ==
    /\ folder \in drive_folders
    /\ \A f \in drive : f.task_id # None
    /\ drive' = drive \cup {[folder |-> folder, name |-> NoDateName,
                             task_id |-> None]}
    /\ UNCHANGED <<requests, db, ee_tasks, drive_folders, pc, new_requests,
                   request_id, local, raised, scheduler_jobs, updates,
                   raster, tiles>>

(* --------------------- AnalysisRequestViewSet.update ------------------ *)

(* An API client writes analysis_request_status (the serializer exposes   *)
(* all fields): the cancellation of a request that is not finished, or    *)
(* the re-enqueue of a failed one.                                        *)
Cancel(r) ==
    /\ updates < MaxUpdates
    /\ requests[r].analysis_request_status \in
            {QUEUED, DOWNLOADING_IMAGES, PROCESSING_IMAGES}
    /\ requests' = [requests EXCEPT ![r].analysis_request_status = CANCELLED]
    /\ updates' = updates + 1
    /\ UNCHANGED <<db, remote, pc, new_requests, request_id, local, raised,
                   scheduler_jobs,
                   raster, tiles>>

Requeue(r) ==
    /\ updates < MaxUpdates
    /\ requests[r].analysis_request_status = FAILED
    /\ requests' = [requests EXCEPT ![r].analysis_request_status = QUEUED]
    /\ updates' = updates + 1
    /\ UNCHANGED <<db, remote, pc, new_requests, request_id, local, raised,
                   scheduler_jobs,
                   raster, tiles>>

(* ------------------------------ the system ---------------------------- *)

(* the scheduler jobs and the export tasks *)
Pipeline ==
    \/ \E j \in Jobs : Tick(j)
    \/ \E j \in Jobs : EndTick(j)
    \/ \E j \in Jobs : EndRaised(j)
    \/ \E j \in Jobs : StartRequest(j)
    \/ \E j \in Jobs : Acquire(j)
    \/ \E t \in ee_tasks, s \in {"COMPLETED", "FAILED", "CANCELLED"} :
            TaskProgress(t, s)
    \/ \E j \in Jobs : WaitRound(j)
    \/ \E j \in Jobs : Download(j)
    \/ \E j \in Jobs : Persist(j)
    \/ \E j \in Jobs : MarkProcessing(j)
    \/ \E j \in Jobs : LoadImages(j)
    \/ \E j \in Jobs : ProcessModels(j)

(* One scheduler job, and API clients that update requests. *)
Next ==
    \/ Pipeline
    \/ \E r \in DOMAIN requests : Cancel(r)
    \/ \E r \in DOMAIN requests : Requeue(r)

Spec == Init /\ [][Next]_vars

(* One scheduler job and a request of one model.  A job that is inside    *)
(* wait_for_export_tasks goes on running: its thread is not starved.      *)
(* Nothing is assumed of Earth Engine.                                    *)
SpecWait ==
    /\ InitRestart
    /\ [][Pipeline]_vars
    /\ \A j \in Jobs : WF_vars(WaitRound(j))

(* One scheduler job, a request of one model, and files that do not come  *)
(* from the export tasks in the staging folders.                          *)
NextUpload ==
    \/ Pipeline
    \/ \E folder \in Reservoirs : UploadFile(folder)

SpecUpload == InitRestart /\ [][NextUpload]_vars

(* process_image on one raster; the pipeline does not move. *)
InitImage ==
    /\ requests = [r \in Requests |->
                    [start_date |-> 1, end_date |-> 1,
                     properties |-> [model_ids |-> {1}],
                     analysis_request_status |-> PROCESSING_IMAGES,
                     analysis_group |-> None]]
    /\ Fresh
    /\ raster \in NewRasters
    /\ tiles = NoTiles

NextImage == ProcessWindow

SpecImage == InitImage /\ [][NextImage]_vars

(* The scheduler is started a second time, so that two jobs run           *)
(* check_for_new_requests on the same table.                              *)
NextRestart ==
    \/ Pipeline
    \/ StartScheduler

SpecRestart == InitRestart /\ [][NextRestart]_vars


(* ============================== properties ============================ *)

Status(r) == requests[r].analysis_request_status

Last(seq) == seq[Len(seq)]

(* job j is inside process_request, past its validation *)
InProgress(j) ==
    pc[j] \in {"acquire", "wait", "download", "persist", "mark", "load",
               "process"}

(* the step is a save of process_request called by job j *)
Saves(j) == local'[j].saved # local[j].saved /\ local'[j].saved # <<>>

(* the step makes job j leave process_request with an exception *)
Raises(j) == pc[j] # "raised" /\ pc'[j] = "raised"

(* C1: a call of process_request that started on a QUEUED request and     *)
(* does not raise saves exactly DOWNLOADING_IMAGES, PROCESSING_IMAGES,    *)
(* COMPLETED, in that order and each into the persisted row, and has      *)
(* saved all three when it returns.                                       *)
C1_SuccessPathOrder ==
    [][\A j \in Jobs :
        (Saves(j) /\ local'[j].start_status = QUEUED /\ ~Raises(j)) =>
            LET saved == local'[j].saved
            IN  /\ requests'[request_id'[j]].analysis_request_status = Last(saved)
                /\ saved \in {<<DOWNLOADING_IMAGES>>,
                              <<DOWNLOADING_IMAGES, PROCESSING_IMAGES>>,
                              <<DOWNLOADING_IMAGES, PROCESSING_IMAGES,
                                COMPLETED>>}
                /\ (pc'[j] = "loop" =>
                        saved = <<DOWNLOADING_IMAGES, PROCESSING_IMAGES,
                                  COMPLETED>>)]_vars

C1_Witness ==
    \E j \in Jobs :
        /\ pc[j] = "loop"
        /\ request_id[j] # None
        /\ local[j].start_status = QUEUED
        /\ local[j].saved = <<DOWNLOADING_IMAGES, PROCESSING_IMAGES, COMPLETED>>
        /\ Status(request_id[j]) = COMPLETED

(* the model set of request r spans more than one reservoir *)
SpansReservoirs(r) ==
    \E m1, m2 \in FilterModels(requests[r].properties.model_ids) :
        MachineLearningModel[m1].reservoir # MachineLearningModel[m2].reservoir

(* the model set of request r has two models of one parameter *)
SharesParameter(r) ==
    \E m1, m2 \in FilterModels(requests[r].properties.model_ids) :
        /\ m1 # m2
        /\ MachineLearningModel[m1].parameter = MachineLearningModel[m2].parameter

(* C2: a request whose model set spans more than one reservoir or has two *)
(* models of one parameter is moved to FAILED by the step that starts its *)
(* execution; its status is never DOWNLOADING_IMAGES or PROCESSING_IMAGES,*)
(* no export task is started for it and no AnalysisGroup is created for   *)
(* it.                                                                    *)
C2_InvalidModelSetFailsDirectly ==
    [][\A r \in DOMAIN requests :
        (SpansReservoirs(r) \/ SharesParameter(r)) =>
            /\ Status(r)' \in {QUEUED, FAILED, CANCELLED}
            /\ \A g \in analysis_groups' : g.request # r
            /\ \A j \in Jobs :
                /\ request_id'[j] = r => ~InProgress(j)'
                /\ (request_id'[j] = r /\ request_id[j] # r) =>
                        /\ Status(r)' = FAILED
                        /\ Raises(j)
                        /\ ee_tasks' = ee_tasks]_vars

C2_Witness ==
    \E r \in DOMAIN requests, j \in Jobs :
        /\ SpansReservoirs(r) \/ SharesParameter(r)
        /\ request_id[j] = r
        /\ pc[j] = "raised"
        /\ Status(r) = FAILED

(* C3: when process_request raises, the status it leaves in the persisted *)
(* row is FAILED, and no step removes a row of the analysis_group,        *)
(* unprocessed_satellite_image, analysis or                               *)
(* analysis_machine_learning_model tables.                                *)
C3_FailedKeepsRows ==
    [][/\ \A j \in Jobs : Raises(j) => requests'[request_id'[j]].analysis_request_status = FAILED
       /\ analysis_groups \subseteq analysis_groups'
       /\ unprocessed_images \subseteq unprocessed_images'
       /\ analyses \subseteq analyses'
       /\ analysis_ml_models \subseteq analysis_ml_models']_vars

(* inference has raised after rows of every table were created *)
C3_Witness ==
    \E j \in Jobs :
        /\ pc[j] = "raised"
        /\ raised[j] = "Exception: image processing"
        /\ Status(request_id[j]) = FAILED
        /\ \E g \in analysis_groups :
            /\ g.id = requests[request_id[j]].analysis_group
            /\ \E a \in analyses : a.analysis_group = g.id
            /\ \E m \in analysis_ml_models : m.analysis.analysis_group = g.id
            /\ \E i \in unprocessed_images : i.reservoir = g.reservoir

(* what a request row holds besides its dates, status, group and model ids *)
ErrorsOn(row) ==
    {row.properties[k] : k \in DOMAIN row.properties \ {"model_ids"}}

C5_TerminalStatusKept ==
    [][updates' = updates =>
        \A r \in DOMAIN requests :
            Status(r) \in {COMPLETED, CANCELLED, FAILED} =>
                Status(r)' = Status(r)]_vars

(* C6 as stated: the pipeline never writes QUEUED, and process_request is *)
(* never started on a request whose persisted status is FAILED (no        *)
(* request is re-enqueued from outside in SpecRestart).                   *)
C6_NoAutomaticReexecution ==
    [][/\ \A r \in DOMAIN requests :
            (Status(r) # QUEUED /\ updates' = updates) => Status(r)' # QUEUED
       /\ \A j \in Jobs :
            (request_id'[j] # request_id[j] /\ request_id'[j] # None) =>
                Status(request_id'[j]) # FAILED]_vars

(* C7 as stated: no two jobs are inside process_request for the same      *)
(* request.                                                               *)
C7_NoConcurrentExecution ==
    \A j1, j2 \in Jobs :
        (j1 # j2 /\ InProgress(j1) /\ InProgress(j2)) =>
            request_id[j1] # request_id[j2]

(* the dates of the cached images of the request that job j executes *)
CachedDates(j) ==
    {i.image_date : i \in
        {i \in unprocessed_images :
            /\ i.reservoir = local[j].reservoir
            /\ requests[request_id[j]].start_date <= i.image_date
            /\ i.image_date <= requests[request_id[j]].end_date}}

(* the gap of the policy for the cached dates and the range [s, e] *)
ExpectedGap(cached, s, e) ==
    LET last == IF cached = {} THEN None ELSE SetMax(cached)
        gap == IF cached = {} THEN <<s, e>>
               ELSE IF last < e THEN <<last + 1, e>>
               ELSE <<None, None>>
    IN  IF gap[1] # None /\ gap[1] = gap[2] THEN <<gap[1], gap[2] + 1>>
        ELSE gap

(* C8: the step that computes the download period follows the gap policy: *)
(* with no gap nothing is submitted and the request goes on to            *)
(* processing; with a gap the interval submitted is the full range, or    *)
(* starts the day after the last cached date, its end moved one day later *)
(* when it would equal its start, and it is never degenerate.             *)
C8_GapPolicy ==
    [][\A j \in Jobs :
        (pc[j] = "acquire" /\ pc'[j] # "acquire") =>
            LET r == request_id[j]
                gap == ExpectedGap(CachedDates(j), requests[r].start_date,
                                   requests[r].end_date)
            IN  IF gap = <<None, None>>
                THEN pc'[j] = "mark" /\ ee_tasks' = ee_tasks
                ELSE /\ pc'[j] \in {"wait", "raised"}
                     /\ pc'[j] = "wait" =>
                            /\ local'[j].new_start_date = gap[1]
                            /\ local'[j].new_end_date = gap[2]
                            /\ gap[1] < gap[2]]_vars

(* an interval that starts after a cached date and was widened *)
C8_Witness ==
    \E j \in Jobs :
        /\ pc[j] = "wait"
        /\ CachedDates(j) # {}
        /\ local[j].new_start_date = requests[request_id[j]].end_date
        /\ local[j].new_end_date = requests[request_id[j]].end_date + 1

(* C9: no date of the requested range that has a cached image when the    *)
(* acquisition reads the cache lies in the interval handed to the         *)
(* provider, and no export task is started for such a date.               *)
C9_NoExportForCachedDate ==
    [][\A j \in Jobs :
        (pc[j] = "acquire" /\ pc'[j] = "wait") =>
            \A d \in CachedDates(j) :
                /\ d \notin local'[j].new_start_date..local'[j].new_end_date
                /\ \A i \in 1..Len(local'[j].tasks_info) :
                        local'[j].tasks_info[i].date # d]_vars

C9_Witness ==
    \E j \in Jobs :
        /\ pc[j] = "wait"
        /\ CachedDates(j) # {}
        /\ local[j].tasks_info # <<>>

(* C10: the unprocessed_satellite_image table never holds two rows of one *)
(* reservoir and date.                                                    *)
C10_OneImagePerReservoirAndDate ==
    \A i1, i2 \in unprocessed_images :
        (i1.reservoir = i2.reservoir /\ i1.image_date = i2.image_date) =>
            i1 = i2

(* two jobs acquire for one reservoir at once, and the second to persist  *)
(* a date was refused                                                     *)
C10_Witness ==
    \E j1, j2 \in Jobs :
        /\ j1 # j2
        /\ pc[j1] = "raised"
        /\ raised[j1] = "IntegrityError"
        /\ InProgress(j2)
        /\ unprocessed_images # {}

(* ------------------------------ acquisition --------------------------- *)

(* the step makes job j persist (or try to persist) a downloaded file     *)
(* whose reservoir and date already have a row                            *)
PersistsExisting(j) ==
    /\ pc[j] = "persist"
    /\ (pc'[j] # "persist" \/ local'[j] # local[j])
    /\ LET image_date == extract_date_from_filename(
                            Head(local[j].downloaded_files).file_name)
       IN  /\ image_date.error = "none"
           /\ UniqueViolation(unprocessed_images, local[j].reservoir,
                              image_date.date)

(* C11 as stated: persisting a file whose (reservoir, date) already has a *)
(* row writes no row, leaves the table as it was and does not make        *)
(* process_request fail.                                                  *)
C11_PersistIsGetOrCreate ==
    [][\A j \in Jobs :
        PersistsExisting(j) =>
            /\ unprocessed_images' = unprocessed_images
            /\ ~Raises(j)
            /\ requests'[request_id[j]].analysis_request_status # FAILED]_vars

(* the step is an iteration of the while loop of wait_for_export_tasks    *)
(* run by job j                                                           *)
WaitStep(j) ==
    /\ pc[j] = "wait"
    /\ (pc'[j] # "wait" \/ local'[j] # local[j])

(* the tasks of the batch of job j that Earth Engine reports FAILED or    *)
(* CANCELLED                                                              *)
EndedTasks(j) ==
    {i \in 1..Len(local[j].tasks_info) :
        \E t \in ee_tasks :
            /\ t.task_id = local[j].tasks_info[i].task_id
            /\ t.state \in {"FAILED", "CANCELLED"}}

(* C12 as stated: a round of the wait that finds a task of the batch      *)
(* FAILED or CANCELLED, at whatever position, raises in that round; it    *)
(* does not sleep.                                                        *)
C12_AbortsInSameRound ==
    [][\A j \in Jobs :
        (WaitStep(j) /\ EndedTasks(j) # {}) =>
            /\ Raises(j)
            /\ local'[j].elapsed = 0]_vars

(* C13: a wait whose tasks never all complete and never fail ends: every  *)
(* wait that has begun is left, and once more than MaxWaitTime has        *)
(* elapsed the next round raises TimeoutError.                            *)
C13_WaitTerminates ==
    \A j \in Jobs :
        /\ (pc[j] = "wait") ~> (pc[j] # "wait")
        /\ (pc[j] = "wait" /\ local[j].elapsed > MaxWaitTime) ~>
                (pc[j] = "raised" /\ raised[j] = "TimeoutError")

(* the wait has timed out with a task of the batch still running *)
C13_Witness ==
    \E j \in Jobs :
        /\ pc[j] = "raised"
        /\ raised[j] = "TimeoutError"
        /\ \E t \in ee_tasks : t.state = "RUNNING"

(* the acquisition of the call of job j has finished: no gap was found,   *)
(* or every task of the batch is COMPLETED and the file of every task has *)
(* its row, and no downloaded file is left to persist                     *)
AcquisitionFinished(j) ==
    /\ local[j].downloaded_files = <<>>
    /\ \/ local[j].new_start_date = None
       \/ \A i \in 1..Len(local[j].tasks_info) :
            /\ TaskState(local[j].tasks_info[i].task_id) = "COMPLETED"
            /\ \E row \in unprocessed_images :
                /\ row.reservoir = local[j].reservoir
                /\ row.image_file = local[j].tasks_info[i].task_id

(* C14: the status of a request becomes PROCESSING_IMAGES only by the     *)
(* save of a call whose acquisition has finished, and a call is at the    *)
(* inference (loading or processing the images) only with its acquisition *)
(* finished.                                                              *)
C14_ProcessingAfterAcquisition ==
    [][/\ \A r \in DOMAIN requests :
            (Status(r) # PROCESSING_IMAGES /\
             requests'[r].analysis_request_status = PROCESSING_IMAGES) =>
                \E j \in Jobs :
                    /\ pc[j] = "mark"
                    /\ request_id[j] = r
                    /\ AcquisitionFinished(j)
       /\ \A j \in Jobs :
            pc'[j] \in {"load", "process"} => AcquisitionFinished(j)']_vars

(* inference has started after the batch of a gap was acquired *)
C14_Witness ==
    \E j \in Jobs :
        /\ pc[j] = "process"
        /\ Status(request_id[j]) = PROCESSING_IMAGES
        /\ Len(local[j].tasks_info) = 2
        /\ AcquisitionFinished(j)

(* the step makes the call of job j leave download_new_images, by its     *)
(* return or by an exception, after the wait found every task COMPLETED   *)
LeavesAcquisition(j) ==
    /\ pc[j] \in {"download", "persist"}
    /\ pc'[j] \in {"mark", "raised"}

(* no image was cached for the range when the call of job j read the      *)
(* cache: the period it computed starts at the start of the range         *)
NothingCached(j) ==
    local[j].new_start_date = requests[request_id[j]].start_date

(* the rows of the reservoir of job j in the range of its request, in the *)
(* table images                                                           *)
RangeRows(j, images) ==
    ImagesInRange(images, local[j].reservoir,
                  requests[request_id[j]].start_date,
                  requests[request_id[j]].end_date)

(* the table images has a row for each task of the batch of job j, with   *)
(* the date and the cloud percentage of the task                          *)
OneRowPerTask(j, images) ==
    \A i \in 1..Len(local[j].tasks_info) :
        \E row \in images :
            /\ row.reservoir = local[j].reservoir
            /\ row.image_file = local[j].tasks_info[i].task_id
            /\ row.image_date = local[j].tasks_info[i].date
            /\ row.cloud_percentage = local[j].tasks_info[i].cloud_percentage

(* the tasks of the batch of job j have different dates *)
DistinctDates(j) ==
    \A i1, i2 \in 1..Len(local[j].tasks_info) :
        local[j].tasks_info[i1].date = local[j].tasks_info[i2].date => i1 = i2

(* every export task started for the staging folder of job j is a task of *)
(* its batch: the folder holds no file of another batch                   *)
OnlyBatch(j) ==
    \A t \in ee_tasks :
        t.folder = local[j].reservoir =>
            \E i \in 1..Len(local[j].tasks_info) :
                local[j].tasks_info[i].task_id = t.task_id

BatchRows(j, images) ==
    {row \in images :
        \E i \in 1..Len(local[j].tasks_info) :
            /\ row.reservoir = local[j].reservoir
            /\ row.image_file = local[j].tasks_info[i].task_id}

(* C16: while a task of the batch of a waiting call is FAILED or          *)
(* CANCELLED the call goes on to no download: it stays in the wait or     *)
(* raises, no row is made of a file of the batch, and the call does raise *)
(* and leave the request FAILED.                                          *)
C16_FailedJobFailsBatch ==
    /\ [][\A j \in Jobs :
            (pc[j] = "wait" /\ EndedTasks(j) # {}) =>
                /\ pc'[j] \in {"wait", "raised"}
                /\ pc'[j] = "raised" =>
                        requests'[request_id[j]].analysis_request_status = FAILED
                /\ BatchRows(j, unprocessed_images') = {}]_vars
    /\ \A j \in Jobs :
            (pc[j] = "wait" /\ EndedTasks(j) # {}) ~>
                (pc[j] = "raised" /\ Status(request_id[j]) = FAILED
                    /\ unprocessed_images = {})

(* the request has failed on a batch with a failed and a completed task,  *)
(* and the file of the completed task has no row                          *)
C16_Witness ==
    \E j \in Jobs :
        /\ pc[j] = "raised"
        /\ raised[j] = "Exception: Task FAILED or CANCELLED"
        /\ Status(request_id[j]) = FAILED
        /\ \E t1, t2 \in ee_tasks :
            /\ t1.state \in {"FAILED", "CANCELLED"}
            /\ t2.state = "COMPLETED"
        /\ unprocessed_images = {}

(* the name holds no YYYY-MM-DD part *)
HasNoDate(file_name) == Len(file_name) < 2

(* the files the call of job j has downloaded and not yet persisted whose *)
(* names hold no date                                                     *)
UndatedFiles(j) ==
    {i \in 1..Len(local[j].downloaded_files) :
        HasNoDate(local[j].downloaded_files[i].file_name)}

(* C17: a call that has downloaded a file whose name holds no date never  *)
(* gets past the loop that persists the files: it raises at that file,    *)
(* making no row of it, the request is left FAILED and the call has not   *)
(* saved PROCESSING_IMAGES.                                               *)
C17_UndatedFileFailsRequest ==
    [][\A j \in Jobs :
        (pc[j] = "persist" /\ UndatedFiles(j) # {}) =>
            /\ pc'[j] \in {"persist", "raised"}
            /\ pc'[j] = "raised" =>
                /\ requests'[request_id[j]].analysis_request_status = FAILED
                /\ \A i \in 1..Len(local'[j].saved) :
                        local'[j].saved[i] # PROCESSING_IMAGES
            /\ (1 \in UndatedFiles(j) /\ local'[j] # local[j]) =>
                /\ Raises(j)
                /\ raised'[j] = "ValueError: Could not extract date from filename"
                /\ unprocessed_images' = unprocessed_images]_vars

(* the request has failed at a file with no date in its name that was     *)
(* downloaded with the file of an export task                             *)
C17_Witness ==
    \E j \in Jobs :
        /\ pc[j] = "raised"
        /\ raised[j] = "ValueError: Could not extract date from filename"
        /\ Status(request_id[j]) = FAILED
        /\ \E t \in ee_tasks : t.state = "COMPLETED"
        /\ drive = {}

(* ------------------------------- inference ---------------------------- *)

(* the step is one of the inference of the call of job j *)
InferenceStep(j) ==
    /\ pc[j] = "process"
    /\ pc'[j] # "process"

(* the step is one in which the processing of an image raised *)
ImageRaises(j) ==
    /\ InferenceStep(j)
    /\ raised'[j] = "Exception: image processing"

(* the pairs of the call of job j that have their result row in the       *)
(* table results                                                          *)
ProcessedPairs(j, results) ==
    {k \in 1..Len(local[j].todo) :
        ResultRow(local[j].analysis_group, local[j].todo, k) \in results}

(* C18 as stated: the error of an image does not leave the image loop:    *)
(* the call does not raise and the request is not moved to FAILED.        *)
C18_BadImageIsSkipped ==
    [][\A j \in Jobs :
        ImageRaises(j) =>
            /\ ~Raises(j)
            /\ requests'[request_id[j]].analysis_request_status # FAILED]_vars

(* C18 as amended: the error of an image is raised again: the call raises *)
(* at that image, leaving the request FAILED, the pairs after it          *)
(* unprocessed and the rows of the pairs before it in place; and a call   *)
(* saves COMPLETED only with every pair processed.                        *)
C18_BadImageFailsRequest ==
    [][\A j \in Jobs :
        /\ ImageRaises(j) =>
            /\ Raises(j)
            /\ requests'[request_id[j]].analysis_request_status = FAILED
            /\ ProcessedPairs(j, analysis_ml_models') # 1..Len(local[j].todo)
            /\ \A k \in ProcessedPairs(j, analysis_ml_models') :
                    1..k \subseteq ProcessedPairs(j, analysis_ml_models')
            /\ analyses \subseteq analyses'
            /\ analysis_ml_models \subseteq analysis_ml_models'
        /\ (InferenceStep(j) /\ ~Raises(j)) =>
            /\ requests'[request_id[j]].analysis_request_status = COMPLETED
            /\ ProcessedPairs(j, analysis_ml_models') = 1..Len(local[j].todo)]_vars

(* the second image of a request raised after the first was processed *)
C18_Witness ==
    \E j \in Jobs :
        /\ pc[j] = "raised"
        /\ raised[j] = "Exception: image processing"
        /\ Status(request_id[j]) = FAILED
        /\ Cardinality(analysis_ml_models) = 1
        /\ Cardinality(unprocessed_images) = 2

(* ----------------------------- process_image -------------------------- *)

(* the pixels of the window of the raster whose upper left corner is      *)
(* <<y, x>>                                                               *)
WindowAt(y, x) ==
    {p \in DOMAIN raster.output_data :
        /\ y <= p[1] /\ p[1] < y + raster.chunk_size
        /\ x <= p[2] /\ p[2] < x + raster.chunk_size}

(* the upper left corners of the windows of the raster *)
Corners ==
    {c \in DOMAIN raster.output_data :
        c[1] % raster.chunk_size = 0 /\ c[2] % raster.chunk_size = 0}

(* what a pixel of the output holds when its window was processed *)
Expected(p) == IF p \in raster.water THEN Predict(p, raster.width) ELSE NoData

(* C19: when process_chunk raises for a window, the step leaves           *)
(* output_data as it was, with the window all -9999, and goes on with the *)
(* loop; and when process_image has finished, every window whose          *)
(* process_chunk raised is all -9999 and every other window holds its     *)
(* result; process_image raises for no error of process_chunk.            *)
C19_FailedWindowStaysNoData ==
    /\ [][raster'.errors # raster.errors =>
            /\ raster'.state \in {"windows", "done"}
            /\ raster'.output_data = raster.output_data
            /\ \A p \in WindowAt(raster.y, raster.x) :
                    raster'.output_data[p] = NoData]_vars
    /\ [](raster.state = "done" =>
            \A c \in Corners : \A p \in WindowAt(c[1], c[2]) :
                raster.output_data[p] =
                    IF c \in raster.errors THEN NoData ELSE Expected(p))

(* a raster of several windows with water in each is finished, one window *)
(* having raised and another having been written                          *)
C19_Witness ==
    /\ raster.state = "done"
    /\ \E c1, c2 \in Corners :
        /\ c1 \in raster.errors
        /\ c2 \notin raster.errors
        /\ \E p \in WindowAt(c1[1], c1[2]) : p \in raster.water
        /\ \E p \in WindowAt(c2[1], c2[2]) :
                raster.output_data[p] # NoData

(* -------------------------- Analysis rows per date --------------------- *)

(* the Analysis rows the step adds to the analysis table *)
CreatedAnalyses == analyses' \ analyses

(* the AnalysisMachineLearningModel rows the step adds *)
CreatedResults == analysis_ml_models' \ analysis_ml_models

(* C20: in one execution the model loop creates exactly one Analysis row  *)
(* for each (analysis group, date) it processes, however many models the  *)
(* request names, and the outputs of the models for that date are result  *)
(* rows of that one Analysis.                                             *)
C20_OneAnalysisPerDate ==
    [][\A j \in Jobs :
        InferenceStep(j) =>
            /\ \A a, b \in CreatedAnalyses :
                    (a.analysis_group = b.analysis_group
                        /\ a.analysis_date = b.analysis_date) => a = b
            /\ \A s, t \in CreatedResults :
                    (s.analysis.analysis_group = t.analysis.analysis_group
                        /\ s.analysis.analysis_date = t.analysis.analysis_date)
                    => s.analysis = t.analysis]_vars

(* ------------------------ result rows of the pairs --------------------- *)

(* C21: a run of the model loop creates one result row for each (model,   *)
(* image) pair it processed, every one attached to an Analysis row that   *)
(* exists, and no two pairs give the same (analysis, model); a pair left  *)
(* without a result row means the run raised and the request is FAILED.   *)
C21_ResultOnlyOnSuccess ==
    [][\A j \in Jobs :
        InferenceStep(j) =>
            LET all == 1..Len(local[j].todo)
                done == ProcessedPairs(j, analysis_ml_models')
            IN  /\ Cardinality(CreatedResults) = Cardinality(done)
                /\ \A s \in CreatedResults :
                        /\ s.analysis \in analyses'
                        /\ \E k \in done :
                              s = ResultRow(local[j].analysis_group,
                                            local[j].todo, k)
                /\ done # all =>
                        /\ Raises(j)
                        /\ requests'[request_id[j]].analysis_request_status
                                = FAILED]_vars

(* an image failed after its Analysis row was created: the row has no     *)
(* result, the pairs before it have theirs, the request is FAILED         *)
C21_Witness ==
    \E j \in Jobs :
        /\ pc[j] = "raised"
        /\ raised[j] = "Exception: image processing"
        /\ Status(request_id[j]) = FAILED
        /\ analysis_ml_models # {}
        /\ Cardinality(analyses) = Cardinality(analysis_ml_models) + 1

(* --------------------- analysis groups of a request -------------------- *)

(* the analysis groups the calls of process_request(r) have created *)
GroupsOf(r) == {g \in analysis_groups : g.request = r}

(* C22: over all the executions of a request, a re-execution after an     *)
(* external re-enqueue of a FAILED request included, at most one analysis *)
(* group is created for it, and none for a request whose model set does   *)
(* not pass the validation.                                               *)
C22_OneGroupPerRequest ==
    \A r \in Requests :
        /\ Cardinality(GroupsOf(r)) <= 1
        /\ GroupsOf(r) # {} =>
                ValidationError(FilterModels(requests[r].properties.model_ids))
                    = "none"

(* ------------------------- the season feature -------------------------- *)
(* The season is computed from the month of the image date in two places: *)
(* WaterQualityPredictor.process_image, for the pixels it predicts, and   *)
(* WaterQualityProcessor.process_tile, for the Season band of a tile.     *)

(* the years and the days of the dates the season is computed for *)
Years == {2023, 2024}
Days == {1, 28}

(* a date 'YYYY-MM-DD', as the year, the month and the day it names *)
ImageDates == {<<y, m, d>> : y \in Years, m \in 1..12, d \in Days}

(* datetime.strptime(image_date, '%Y-%m-%d').month and                    *)
(* ee.Date(start_date).get("month")                                       *)
MonthOf(image_date) == image_date[2]

(* season = ((month + 2) // 3) % 4 + 1 *)
process_image_season(month) == (((month + 2) \div 3) % 4) + 1

(* image_date.get("month").add(2).divide(3).floor().add(1) *)
process_tile_season(month) == ((month + 2) \div 3) + 1

(* process_image reads the date of the image and computes its season *)
ProcessImageSeason ==
    /\ raster.state = "date"
    /\ raster.predictor = None
    /\ raster' = [raster EXCEPT
                    !.predictor = process_image_season(MonthOf(raster.image_date))]
    /\ UNCHANGED <<requests, db, remote, pc, new_requests, request_id, local,
                   raised, scheduler_jobs, updates, tiles>>

(* process_tile computes the Season band of the tile of the date *)
ProcessTileSeason ==
    /\ raster.state = "date"
    /\ raster.tile = None
    /\ raster' = [raster EXCEPT
                    !.tile = process_tile_season(MonthOf(raster.image_date))]
    /\ UNCHANGED <<requests, db, remote, pc, new_requests, request_id, local,
                   raised, scheduler_jobs, updates, tiles>>

InitSeason ==
    /\ requests = [r \in Requests |->
                    [start_date |-> 1, end_date |-> 1,
                     properties |-> [model_ids |-> {1}],
                     analysis_request_status |-> PROCESSING_IMAGES,
                     analysis_group |-> None]]
    /\ Fresh
    /\ raster \in [state : {"date"}, image_date : ImageDates,
                   predictor : {None}, tile : {None}]
    /\ tiles = NoTiles

NextSeason ==
    \/ ProcessImageSeason
    \/ ProcessTileSeason

SpecSeason == InitSeason /\ [][NextSeason]_vars

(* C23: for every month the season fed to the model is                    *)
(* ((month - 1) // 3) + 1, lies in 1..4, and is the same in process_image *)
(* and in process_tile.                                                   *)
C23_SeasonBucket ==
    LET month == MonthOf(raster.image_date)
    IN  /\ raster.predictor # None =>
                /\ raster.predictor = ((month - 1) \div 3) + 1
                /\ raster.predictor \in 1..4
        /\ raster.tile # None =>
                /\ raster.tile = ((month - 1) \div 3) + 1
                /\ raster.tile \in 1..4
        /\ (raster.predictor # None /\ raster.tile # None) =>
                raster.predictor = raster.tile

(* ------------------------------ water mask ----------------------------- *)

(* process_image has been through the window whose corner is c *)
Visited(c) ==
    \/ raster.state = "done"
    \/ c[1] < raster.y
    \/ c[1] = raster.y /\ c[2] < raster.x

(* C24: every pixel of the output that is outside the water mask holds    *)
(* -9999; a pixel that holds a prediction is a pixel of the mask and      *)
(* holds the prediction for its own features; every pixel of the mask in  *)
(* a window that was processed holds its prediction; and the output of a  *)
(* raster with no water pixel is all -9999.                               *)
C24_OnlyWaterIsPredicted ==
    raster.state \in {"windows", "done", "raised"} =>
        /\ \A p \in DOMAIN raster.output_data :
                /\ p \notin raster.water => raster.output_data[p] = NoData
                /\ raster.output_data[p] # NoData =>
                        /\ p \in raster.water
                        /\ raster.output_data[p] = Predict(p, raster.width)
        /\ \A c \in Corners :
                (Visited(c) /\ c \notin raster.errors) =>
                    /\ \A i \in 1..Len(valid_features(WindowAt(c[1], c[2]),
                                                      raster.water)) :
                          valid_features(WindowAt(c[1], c[2]),
                                         raster.water)[i] \in raster.water
                    /\ \A p \in WindowAt(c[1], c[2]) \cap raster.water :
                          raster.output_data[p] = Predict(p, raster.width)
        /\ (raster.state = "done" /\ raster.water = {}) =>
                \A p \in DOMAIN raster.output_data :
                    raster.output_data[p] = NoData

(* a raster is finished without error; in one of its windows a pixel of   *)
(* the mask comes after a pixel that is not water, in row-major order,    *)
(* and holds its own prediction                                           *)
C24_Witness ==
    /\ raster.state = "done"
    /\ raster.errors = {}
    /\ \E c \in Corners : \E p, q \in WindowAt(c[1], c[2]) :
            /\ p \notin raster.water
            /\ q \in raster.water
            /\ Predict(p, raster.width) < Predict(q, raster.width)
            /\ raster.output_data[p] = NoData
            /\ raster.output_data[q] = Predict(q, raster.width)

(* ------------------------- a queue of two requests --------------------- *)

(* the requests of the table when two have been submitted *)
QueuedRequests == {1, 2}

(* Two requests have been submitted for the first date, each with one     *)
(* model or with two models of the same parameter; one scheduler job.     *)
InitQueue ==
    /\ requests \in [QueuedRequests ->
                        {q \in NewRequests :
                            /\ q.start_date = 1
                            /\ q.end_date = 1
                            /\ q.properties.model_ids \in {{1}, {1, 3}}}]
    /\ Fresh
    /\ raster = NoRaster
    /\ tiles = NoTiles

SpecQueue == InitQueue /\ [][Pipeline]_vars

(* the step ends the run of check_for_new_requests of job j *)
EndsTick(j) == pc[j] # "idle" /\ pc'[j] = "idle"

(* C25: when a run of check_for_new_requests ends, every request that was *)
(* QUEUED when it started has been handed to process_request, whatever    *)
(* the outcome of the requests before it.                                 *)
C25_EveryQueuedRequestHandedOver ==
    [][\A j \in Jobs : EndsTick(j) => new_requests[j] = {}]_vars

(* --------------------------- the staging folder ------------------------ *)

(* the row of the image table that holds the content of the Drive file f *)
PersistedFrom(f, images) ==
    {i \in images : i.reservoir = f.folder /\ i.image_file = f.task_id}

(* the step is the last one of the acquisition of job j, which succeeded *)
AcquisitionSucceeds(j) ==
    /\ pc[j] \in {"download", "persist"}
    /\ pc'[j] = "mark"

(* C26: a file is deleted from the Drive folder only after its row has    *)
(* been persisted, and when an acquisition has succeeded no file of its   *)
(* batch is left in the folder.                                           *)
C26_DeleteAfterPersist ==
    [][/\ \A f \in drive \ drive' :
                PersistedFrom(f, unprocessed_images') # {}
       /\ \A j \in Jobs :
            AcquisitionSucceeds(j) =>
                \A i \in 1..Len(local[j].tasks_info) :
                    \A f \in drive' :
                        f.task_id # local[j].tasks_info[i].task_id]_vars

(* ------------- WaterQualityProcessor._process_single_date -------------- *)

(* n_tiles = 2: the area is cut into n_tiles x n_tiles tiles *)
n_tiles == 2

(* The threads, in the order they are created: thread t processes the     *)
(* tile <<i, j>> with t = i * n_tiles + j + 1.                            *)
Threads == 1..(n_tiles * n_tiles)

(* out_file of a thread: Tile_{date}_{i+1}_{j+1}.tif *)
out_file(t) == <<((t - 1) \div n_tiles) + 1, ((t - 1) % n_tiles) + 1>>

(* _process_single_date is called: the lock and the list are new and no   *)
(* thread has been created                                                *)
NewTiles ==
    [main |-> "start", next |-> 1, lock |-> None, tile_results |-> <<>>,
     threads |-> [t \in Threads |-> [pc |-> "new", seen |-> <<>>]]]

(* t = threading.Thread(...); threads.append(t); t.start(), and after the *)
(* last one the loop of the joins begins                                  *)
StartThread ==
    /\ tiles.main = "start"
    /\ tiles' = [tiles EXCEPT
            !.threads[tiles.next].pc = "process_tile",
            !.next = IF tiles.next = Len(tiles.threads) THEN 1 ELSE @ + 1,
            !.main = IF tiles.next = Len(tiles.threads) THEN "join" ELSE @]
    /\ UNCHANGED <<requests, db, remote, pc, new_requests, request_id, local,
                   raised, scheduler_jobs, updates, raster>>

(* tile_result = self.process_tile(tile_geometry, date): a result, None   *)
(* or an exception, which is caught and printed                           *)
ProcessTile(t) ==
    /\ tiles.main # "none"
    /\ tiles.threads[t].pc = "process_tile"
    /\ \E outcome \in {"result", "none", "error"} :
        tiles' = [tiles EXCEPT
            !.threads[t].pc = IF outcome = "result" THEN "lock" ELSE outcome]
    /\ UNCHANGED <<requests, db, remote, pc, new_requests, request_id, local,
                   raised, scheduler_jobs, updates, raster>>

(* a with statement that does not wait for the lock *)
AcquireLock_NoMutex(t) ==
    /\ tiles.main # "none"
    /\ tiles.threads[t].pc = "lock"
    /\ tiles' = [tiles EXCEPT !.lock = t, !.threads[t].pc = "export"]
    /\ UNCHANGED <<requests, db, remote, pc, new_requests, request_id, local,
                   raised, scheduler_jobs, updates, raster>>

(* with lock: the thread waits until no thread holds the lock *)
AcquireLock(t) ==
    /\ tiles.main # "none"
    /\ tiles.threads[t].pc = "lock"
    /\ tiles.lock = None
    /\ tiles' = [tiles EXCEPT !.lock = t, !.threads[t].pc = "export"]
    /\ UNCHANGED <<requests, db, remote, pc, new_requests, request_id, local,
                   raised, scheduler_jobs, updates, raster>>

(* geemap.ee_export_image(...) inside the with: it returns, and append    *)
(* reads the list, or it raises, which releases the lock and is caught    *)
Export(t) ==
    /\ tiles.main # "none"
    /\ tiles.threads[t].pc = "export"
    /\ \/ tiles' = [tiles EXCEPT
                !.threads[t].pc = "append",
                !.threads[t].seen = tiles.tile_results]
       \/ tiles' = [tiles EXCEPT
                !.threads[t].pc = "error",
                !.lock = None]
    /\ UNCHANGED <<requests, db, remote, pc, new_requests, request_id, local,
                   raised, scheduler_jobs, updates, raster>>

(* tile_results.append(out_file) writes the list it read with one more    *)
(* entry; the with releases the lock                                      *)
AppendTile(t) ==
    /\ tiles.main # "none"
    /\ tiles.threads[t].pc = "append"
    /\ tiles' = [tiles EXCEPT
            !.tile_results = Append(tiles.threads[t].seen, out_file(t)),
            !.threads[t].pc = "appended",
            !.threads[t].seen = <<>>,
            !.lock = None]
    /\ UNCHANGED <<requests, db, remote, pc, new_requests, request_id, local,
                   raised, scheduler_jobs, updates, raster>>

(* the thread has returned from process_and_save_tile *)
Finished(t) == tiles.threads[t].pc \in {"appended", "none", "error"}

(* for t in threads: t.join() *)
Join ==
    /\ tiles.main = "join"
    /\ Finished(tiles.next)
    /\ tiles' = [tiles EXCEPT
            !.next = IF tiles.next = Len(tiles.threads) THEN 1 ELSE @ + 1,
            !.main = IF tiles.next = Len(tiles.threads) THEN "joined" ELSE @]
    /\ UNCHANGED <<requests, db, remote, pc, new_requests, request_id, local,
                   raised, scheduler_jobs, updates, raster>>

(* if not tile_results: raise ValueError; else merge_tiff_files *)
Merge ==
    /\ tiles.main = "joined"
    /\ tiles' = [tiles EXCEPT
            !.main = IF tiles.tile_results = <<>> THEN "raised" ELSE "merge"]
    /\ UNCHANGED <<requests, db, remote, pc, new_requests, request_id, local,
                   raised, scheduler_jobs, updates, raster>>

InitTiles ==
    /\ requests = [r \in Requests |->
                    [start_date |-> 1, end_date |-> 1,
                     properties |-> [model_ids |-> {1}],
                     analysis_request_status |-> PROCESSING_IMAGES,
                     analysis_group |-> None]]
    /\ Fresh
    /\ raster = NoRaster
    /\ tiles = NewTiles

NextTiles ==
    \/ StartThread
    \/ \E t \in Threads : ProcessTile(t)
    \/ \E t \in Threads : AcquireLock(t)
    \/ \E t \in Threads : Export(t)
    \/ \E t \in Threads : AppendTile(t)
    \/ Join
    \/ Merge

SpecTiles == InitTiles /\ [][NextTiles]_vars

(* the entries of a list *)
Entries(seq) == {seq[i] : i \in 1..Len(seq)}

(* C27: a tile worker reads and writes the shared list only while it      *)
(* holds the lock; once all the workers have been joined the list holds   *)
(* exactly one entry for each tile that was processed and exported, none  *)
(* lost and none twice; and the merge starts only when every worker has   *)
(* finished.                                                              *)
C27_AppendsUnderMutex ==
    /\ \A t \in Threads :
            tiles.threads[t].pc \in {"export", "append"} => tiles.lock = t
    /\ tiles.main \in {"joined", "merge", "raised"} =>
            /\ \A t \in Threads : Finished(t)
            /\ Entries(tiles.tile_results) =
                    {out_file(t) : t \in {u \in Threads :
                                            tiles.threads[u].pc = "appended"}}
            /\ Cardinality(Entries(tiles.tile_results))
                    = Len(tiles.tile_results)

(* the merge has started on the results of several tiles, after a tile    *)
(* gave no result and the export of another raised                        *)
C27_Witness ==
    /\ tiles.main = "merge"
    /\ Len(tiles.tile_results) = 2
    /\ \E t, u \in Threads :
            tiles.threads[t].pc = "none" /\ tiles.threads[u].pc = "error"

(* ----------------------- completeness of COMPLETED --------------------- *)

(* the step is the one in which job j evaluates all_images and inference  *)
(* starts                                                                 *)
InferenceStarts(j) == pc[j] = "load" /\ pc'[j] = "process"

(* the step is the save of COMPLETED by job j *)
Completes(j) ==
    /\ InferenceStep(j)
    /\ requests'[request_id[j]].analysis_request_status = COMPLETED

(* the result rows of the analysis group of request r, in the table       *)
(* results, for model m and the date of image i                           *)
ResultsFor(results, group, m, i) ==
    {s \in results :
        /\ s.machine_learning_model = m
        /\ s.analysis.analysis_group = group
        /\ s.analysis.analysis_date = i.image_date}

(* C28: inference starts on every pair of a model of the request and an   *)
(* image of the reservoir dated within the range of the request, and when *)
(* COMPLETED is saved the analysis group of the request holds a result    *)
(* for every one of these pairs.                                          *)
C28_CompletedHasEveryPair ==
    [][\A j \in Jobs :
        LET r == request_id[j]
            todo == local[j].todo
        IN  /\ InferenceStarts(j) =>
                    {<<local'[j].todo[k].model, local'[j].todo[k].image>> :
                        k \in 1..Len(local'[j].todo)}
                    = FilterModels(requests[r].properties.model_ids)
                        \X ImagesInRange(unprocessed_images, ReservoirOf(r),
                                         requests[r].start_date,
                                         requests[r].end_date)
            /\ Completes(j) =>
                    \A k \in 1..Len(todo) :
                        ResultsFor(analysis_ml_models',
                                   requests'[r].analysis_group,
                                   todo[k].model, todo[k].image) # {}]_vars

(* a request of two models is COMPLETED with two images in its range and  *)
(* the four results in its group                                          *)
C28_Witness ==
    \E r \in Requests :
        /\ Status(r) = COMPLETED
        /\ requests[r].properties.model_ids = {1, 2}
        /\ Cardinality(ImagesInRange(unprocessed_images, ReservoirOf(r),
                                     requests[r].start_date,
                                     requests[r].end_date)) = 2
        /\ Cardinality({s \in analysis_ml_models :
                s.analysis.analysis_group = requests[r].analysis_group}) = 4

(* ------------------------ provenance of the images --------------------- *)

(* the export tasks job j submitted in its acquisition run *)
SubmittedBy(j) ==
    {local[j].tasks_info[i] : i \in 1..Len(local[j].tasks_info)}

(* C29: a run of the acquisition downloads only files produced by the     *)
(* export tasks it submitted itself, and every image row it creates holds *)
(* the content of such a file with the cloud percentage of its task.      *)
C29_OnlyOwnFilesIngested ==
    [][\A j \in Jobs :
        /\ (pc[j] = "download" /\ pc'[j] # "download") =>
                \A k \in 1..Len(local'[j].downloaded_files) :
                    \E t \in SubmittedBy(j) :
                        t.task_id = local'[j].downloaded_files[k].file_content
        /\ pc[j] = "persist" =>
                \A row \in unprocessed_images' \ unprocessed_images :
                    \E t \in SubmittedBy(j) :
                        /\ t.task_id = row.image_file
                        /\ t.cloud_percentage = row.cloud_percentage]_vars

(* ------------------------- windows of the raster ----------------------- *)

(* pixel p is in the window of iteration v of the loop *)
Covers(v, p) ==
    /\ v.y <= p[1] /\ p[1] < v.y_end
    /\ v.x <= p[2] /\ p[2] < v.x_end

(* the iterations of the loop whose window holds pixel p *)
WindowsOf(p) == {i \in 1..Len(raster.windows) : Covers(raster.windows[i], p)}

(* the window of iteration i was read, processed without error and        *)
(* written                                                                *)
Written(i) ==
    /\ <<raster.windows[i].y, raster.windows[i].x>> \notin raster.errors
    /\ ~(raster.state = "raised" /\ i = Len(raster.windows))

(* C30: the windows process_image visits are inside the raster and have   *)
(* at most chunk_size rows and columns; no pixel is in two of them and,   *)
(* when the loop has ended, every pixel is in exactly one; and every      *)
(* window that was written holds, at each pixel, the result for the pixel *)
(* read at that same row and column.                                      *)
C30_WindowsPartitionRaster ==
    raster.state \in {"windows", "done", "raised"} =>
        /\ \A i \in 1..Len(raster.windows) :
            LET v == raster.windows[i]
            IN  /\ 0 <= v.y /\ v.y < v.y_end /\ v.y_end <= raster.height
                /\ 0 <= v.x /\ v.x < v.x_end /\ v.x_end <= raster.width
                /\ v.y_end - v.y <= raster.chunk_size
                /\ v.x_end - v.x <= raster.chunk_size
                /\ Written(i) =>
                        \A p \in DOMAIN raster.output_data :
                            Covers(v, p) => raster.output_data[p] = Expected(p)
        /\ \A p \in DOMAIN raster.output_data :
                /\ Cardinality(WindowsOf(p)) <= 1
                /\ raster.state = "done" => Cardinality(WindowsOf(p)) = 1

(* a raster of four windows, all water, has been processed without error  *)
C30_Witness ==
    /\ raster.state = "done"
    /\ raster.errors = {}
    /\ Len(raster.windows) = 4
    /\ raster.water = DOMAIN raster.output_data
    /\ \A p \in DOMAIN raster.output_data :
            raster.output_data[p] = Predict(p, raster.width)

=============================================================================
